---- MODULE Spec2Model ----
(***************************************************************************)
(* Reconciliation of a Sentry organization integration configuration.      *)
(* Two variants of the resource are modelled from their source:            *)
(*   framework: internal/provider/resource_organization_integration_       *)
(*              configuration.go   (Read, Create)                          *)
(*   legacy:    the SDKv2 resource (Read, Update, Delete)                  *)
(* against a remote client exposing List (cursor paginated) and            *)
(* UpdateConfig (whole-document replacement).                              *)
(*                                                                         *)
(* Strings that are split or joined (slugs, ids) are sequences of one-     *)
(* character strings; names and cursors are only compared and are plain    *)
(* strings.                                                                *)
(***************************************************************************)
EXTENDS Integers, Sequences, FiniteSets, TLC

VARIABLES
    variant,      \* "framework" | "legacy" | "codec": which resource the host drives
    items,        \* remote: item index -> [id, name, providerKey, configData]
    pages,        \* remote: cursor -> [ixs, next], the paginated listing
    stored,       \* the host's stored state of the resource
    invocations,  \* number of invocations started so far
    pc,           \* position inside the running handler
    op,           \* the running handler
    data,         \* framework: local `data` model; legacy: the ResourceData d
    respState,    \* framework: resp.State handed back to the host
    cursor,       \* params.ListCursorParams.Cursor
    matched,      \* matchedIntegrations
    examined,     \* history: items visited by the range loop, in order
    calls,        \* history: remote calls of the running invocation, in order
    outcome,      \* diagnostics of the running invocation
    before,       \* history: remote and state as the running handler found them
    codecIn,      \* codec: the three parts
    codecId,      \* codec: the composite identifier built from them
    codecOut      \* codec: the result of splitting the identifier

vars == <<variant, items, pages, stored, invocations, pc, op, data, respState,
          cursor, matched, examined, calls, outcome, before, codecIn, codecId,
          codecOut>>

remoteVars == <<items, pages>>
codecVars == <<codecIn, codecId, codecOut>>
loopVars == <<cursor, matched, examined>>

----------------------------------------------------------------------------
(* Bounds *)

NItems == 2           \* remote integrations of the organization
MaxInvocations == 2   \* handler invocations in one behaviour
MaxCalls == 4         \* List calls of one invocation that are followed
MaxLen == 2           \* length of a part given to the codec

----------------------------------------------------------------------------
(* Values *)

Org == <<"o">>
Key == <<"k">>
OtherKey == <<"j">>
Name == "A"
OtherName == "B"
Sep == "/"
Digit == <<"1", "2", "3", "4", "5">>
CursorSeq == <<"", "c1", "c2">>
Cursors == {CursorSeq[p] : p \in 1..Len(CursorSeq)}
KeyOrder == <<"a", "b", "c">>
NoString == <<>>

EmptyDoc == [k \in {} |-> "x"]
DocBC == [k \in {"b", "c"} |-> IF k = "b" THEN "3" ELSE "4"]

ItemId(ix) == <<Digit[ix]>>
InitDoc(ix) == [k \in {"a", "b"} |-> IF k = "a" THEN Digit[ix] ELSE "2"]

----------------------------------------------------------------------------
(* Composite identifier codec *)

buildThreePartID_FirstOnly(a, b, c) == a \o <<Sep>> \o b \o c

buildThreePartID(a, b, c) == a \o <<Sep>> \o b \o <<Sep>> \o c

RECURSIVE Split(_, _)
Split(s, acc) ==
    IF s = <<>> THEN <<acc>>
    ELSE IF Head(s) = Sep THEN <<acc>> \o Split(Tail(s), <<>>)
    ELSE Split(Tail(s), Append(acc, Head(s)))

splitThreePartID(id) ==
    LET parts == Split(id, <<>>)
    IN  IF Len(parts) # 3
        THEN [err |-> TRUE, parts |-> <<>>]
        ELSE [err |-> FALSE, parts |-> parts]

----------------------------------------------------------------------------
(* Document conversions *)

RawObject(members) == [kind |-> "object", members |-> members]
RawEmpty == [kind |-> "empty", members |-> <<>>]
RawInvalid == [kind |-> "invalid", members |-> <<>>]

RECURSIVE FoldMembers(_, _)
FoldMembers(members, doc) ==
    IF members = <<>> THEN doc
    ELSE LET m == Head(members)
         IN  FoldMembers(Tail(members),
                 [k \in DOMAIN doc \cup {m[1]} |-> IF k = m[1] THEN m[2] ELSE doc[k]])

Unmarshal_Lenient(raw) ==
    [err |-> FALSE, doc |-> FoldMembers(raw.members, EmptyDoc)]

\* json.Unmarshal into map[string]interface{}: a later member replaces an
\* earlier one with the same key; anything but an object is an error.
Unmarshal(raw) ==
    IF raw.kind # "object"
    THEN [err |-> TRUE, doc |-> EmptyDoc]
    ELSE [err |-> FALSE, doc |-> FoldMembers(raw.members, EmptyDoc)]

RECURSIVE MembersOf(_, _)
MembersOf(doc, ks) ==
    IF ks = <<>> THEN <<>>
    ELSE IF Head(ks) \in DOMAIN doc
         THEN <<<<Head(ks), doc[Head(ks)]>>>> \o MembersOf(doc, Tail(ks))
         ELSE MembersOf(doc, Tail(ks))

\* json.Marshal of a map: an object with its members sorted by key.
Marshal(doc) == [err |-> FALSE, raw |-> RawObject(MembersOf(doc, KeyOrder))]

----------------------------------------------------------------------------
(* Remote service: the integrations of the organization and their listing *)

ItemIxs == 1..NItems

ItemKinds ==
    { [name |-> Name, providerKey |-> Key],
      [name |-> OtherName, providerKey |-> Key],
      [name |-> Name, providerKey |-> OtherKey] }

InitItems ==
    { [ix \in ItemIxs |->
          [id |-> ItemId(ix), name |-> k[ix].name,
           providerKey |-> k[ix].providerKey, configData |-> InitDoc(ix)]]
      : k \in [ItemIxs -> ItemKinds] }

PageNo(c) == CHOOSE p \in 1..Len(CursorSeq) : CursorSeq[p] = c

\* the indexes lo+1 .. hi, in order
Range(lo, hi) == [k \in 1..(hi - lo) |-> lo + k]

\* where each page of the listing ends: nondecreasing, the last page ends
\* at the last item
CutSeqs ==
    { c \in UNION { [1..n -> 0..NItems] : n \in 1..Len(CursorSeq) } :
        /\ c[Len(c)] = NItems
        /\ \A i \in 1..(Len(c) - 1) : c[i] <= c[i + 1] }

\* back = 0: the last page carries the empty cursor; back = p: the last page
\* carries the cursor of page p again (a remote that never ends the listing)
Layout(cuts, back) ==
    [c \in Cursors |->
        LET p == PageNo(c)
        IN  IF p > Len(cuts)
            THEN [ixs |-> <<>>, next |-> ""]
            ELSE [ixs |-> Range(IF p = 1 THEN 0 ELSE cuts[p - 1], cuts[p]),
                  next |-> IF p < Len(cuts) THEN CursorSeq[p + 1]
                           ELSE IF back = 0 THEN "" ELSE CursorSeq[back]]]

Layouts ==
    UNION { { Layout(c, b) : b \in {0} \cup 2..Len(c) } : c \in CutSeqs }

\* OrganizationIntegrations.List(ctx, organization, params)
RemoteList(organization, providerKey, c) ==
    LET pg == pages[c]
        all == [i \in 1..Len(pg.ixs) |-> items[pg.ixs[i]]]
    IN  [integrations |->
             IF organization = Org
             THEN SelectSeq(all, LAMBDA it : it.providerKey = providerKey)
             ELSE <<>>,
         cursor |-> pg.next]

\* OrganizationIntegrations.UpdateConfig(ctx, organization, integrationID, doc)
\* can succeed only for an integration the remote has
RemoteResolves(organization, integrationID) ==
    /\ organization = Org
    /\ \E ix \in ItemIxs : items[ix].id = integrationID

RemoteUpdate(integrationID, doc) ==
    [ix \in ItemIxs |->
        IF items[ix].id = integrationID
        THEN [items[ix] EXCEPT !.configData = doc]
        ELSE items[ix]]

ListCall_AsUpdate(organization, providerKey, c, ok) ==
    [kind |-> "UpdateConfig", organization |-> organization, providerKey |-> providerKey,
     cursor |-> c, integrationID |-> NoString, document |-> EmptyDoc, ok |-> ok]

ListCall(organization, providerKey, c, ok) ==
    [kind |-> "List", organization |-> organization, providerKey |-> providerKey,
     cursor |-> c, integrationID |-> NoString, document |-> EmptyDoc, ok |-> ok]

UpdateCall(organization, integrationID, doc, ok) ==
    [kind |-> "UpdateConfig", organization |-> organization, providerKey |-> NoString,
     cursor |-> "", integrationID |-> integrationID, document |-> doc, ok |-> ok]

ListCalls == SelectSeq(calls, LAMBDA c : c.kind = "List")
UpdateCalls == SelectSeq(calls, LAMBDA c : c.kind = "UpdateConfig")

----------------------------------------------------------------------------
(* Host-side values *)

\* types.String: known, null or unknown
TKnown(v) == [state |-> "known", v |-> v]
TUnknown == [state |-> "unknown", v |-> NoString]
TNull == [state |-> "null", v |-> NoString]
ValueString(t) == IF t.state = "known" THEN t.v ELSE NoString

NullFState ==
    [id |-> TNull, organization |-> NoString, provider_key |-> NoString,
     is_fragment |-> "null", name |-> "", configData |-> RawEmpty]

RawDocs ==
    { RawEmpty, RawInvalid, RawObject(<<>>),
      RawObject(<< <<"b", "3">>, <<"c", "4">> >>),
      RawObject(<< <<"b", "1">>, <<"b", "3">> >>) }

\* req.Plan of Create, as the host hands it over. id is a computed attribute:
\* unknown in a plan that has no prior state; a plan that carries a known id
\* is taken in as well, so that the path after a successful UpdateConfig is
\* covered.
Plans ==
    { [id |-> i, organization |-> Org, provider_key |-> Key, is_fragment |-> f,
       name |-> Name, configData |-> r]
      : i \in {TUnknown, TKnown(ItemId(1))},
        f \in {"null", "true", "false"},
        r \in RawDocs }

FrameworkStored ==
    { [id |-> TKnown(ItemId(1)), organization |-> Org, provider_key |-> Key,
       is_fragment |-> "null", name |-> Name, configData |-> r]
      : r \in {Marshal(InitDoc(1)).raw, RawObject(<<>>)} }

LegacyDocs == {EmptyDoc, DocBC}

\* the ResourceData the host hands over. The resource has no create handler,
\* so the stored id is whatever the host holds: a bare remote id or the
\* composite that Read writes.
LegacyStored ==
    { [id |-> i, internal_id |-> n, organization |-> Org, provider_key |-> Key,
       name |-> Name, config |-> InitDoc(1)]
      : i \in {ItemId(1), buildThreePartID(Org, Key, ItemId(1))},
        n \in {NoString, ItemId(1)} }

CodecStrings == UNION { [1..n -> {"a", Sep}] : n \in 0..MaxLen }

----------------------------------------------------------------------------
(* Initial states *)

Snapshot(i, s, d, r) == [items |-> i, stored |-> s, data |-> d, respState |-> r]

IdleLocals ==
    /\ pc = "idle"
    /\ op = "none"
    /\ cursor = ""
    /\ matched = <<>>
    /\ examined = <<>>
    /\ calls = <<>>
    /\ outcome = "none"
    /\ invocations = 0

CodecIdle ==
    /\ codecIn = <<NoString, NoString, NoString>>
    /\ codecId = NoString
    /\ codecOut = [err |-> FALSE, parts |-> <<>>]

Init ==
    /\ variant \in {"framework", "legacy"}
    /\ items \in InitItems
    /\ pages \in Layouts
    /\ stored \in IF variant = "framework" THEN FrameworkStored ELSE LegacyStored
    /\ data = stored
    /\ respState = IF variant = "framework" THEN stored ELSE NullFState
    /\ before = Snapshot(items, stored, data, respState)
    /\ IdleLocals
    /\ CodecIdle

----------------------------------------------------------------------------
(* Steps shared by the handlers *)

\* for _, integration := range integrations { if integration.Name == name ... }
MatchesOf(integrations, name) ==
    SelectSeq(integrations, LAMBDA it : it.name = name)

\* if apiResp.Cursor == "" { break }
LoopContinues_Never(apiRespCursor) == FALSE

LoopContinues_Always(apiRespCursor) == TRUE

LoopContinues(apiRespCursor) == apiRespCursor # ""

\* if err != nil { return ... }
ListErr_Ignored(ok) == FALSE

ListErr(ok) == ~ok

Begin(o) ==
    /\ pc = "idle"
    /\ invocations < MaxInvocations
    /\ invocations' = invocations + 1
    /\ op' = o
    /\ cursor' = ""
    /\ matched' = <<>>
    /\ examined' = <<>>
    /\ calls' = <<>>

Finish(result) ==
    /\ pc' = "done"
    /\ outcome' = result

\* one iteration of the pagination loop of Read
ListStep(organization, providerKey, name) ==
    /\ pc = "list"
    /\ Len(ListCalls) < MaxCalls
    /\ \E ok \in BOOLEAN :
        LET r == RemoteList(organization, providerKey, cursor)
        IN  /\ calls' = Append(calls, ListCall(organization, providerKey, cursor, ok))
            /\ IF ListErr(ok)
               THEN /\ Finish("RemoteError")
                    /\ UNCHANGED loopVars
               ELSE /\ examined' = examined \o r.integrations
                    /\ matched' = matched \o MatchesOf(r.integrations, name)
                    /\ IF LoopContinues(r.cursor)
                       THEN /\ cursor' = r.cursor
                            /\ UNCHANGED <<pc, outcome>>
                       ELSE /\ pc' = "match"
                            /\ UNCHANGED <<cursor, outcome>>

\* if len(matchedIntegrations) == 0 ... else if len(matchedIntegrations) > 1 ...
MatchResult_PickFirst(m) ==
    IF Len(m) = 0 THEN "NotFound" ELSE "ok"

MatchResult(m) ==
    IF Len(m) = 0 THEN "NotFound"
    ELSE IF Len(m) > 1 THEN "NotUnique"
    ELSE "ok"

----------------------------------------------------------------------------
(* Framework variant *)

\* Fill(organizationSlug, configData, d)
Fill(r, organizationSlug, configData, d) ==
    [r EXCEPT !.id = TKnown(d.id),
              !.organization = organizationSlug,
              !.provider_key = d.providerKey,
              !.name = d.name,
              !.configData = configData]

\* Read: req.State.Get (its diagnostics are the host's: either outcome), then
\* the start of the pagination loop. resp.State starts as the prior state.
FReadStart ==
    /\ variant = "framework"
    /\ stored # NullFState
    /\ Begin("FRead")
    /\ respState' = stored
    /\ \E getOk \in BOOLEAN :
        IF getOk
        THEN /\ data' = stored
             /\ pc' = "list"
             /\ UNCHANGED outcome
        ELSE /\ data' = NullFState
             /\ Finish("GetError")
    /\ UNCHANGED <<variant, remoteVars, stored, codecVars>>
    /\ before' = Snapshot(items, stored, data', respState')

FReadList ==
    /\ op = "FRead"
    /\ ListStep(data.organization, data.provider_key, data.name)
    /\ UNCHANGED <<variant, remoteVars, stored, invocations, op, data, respState,
                   before, codecVars>>

\* Read after the loop: the match decision, json.Marshal and Fill
FReadMatch ==
    /\ op = "FRead"
    /\ pc = "match"
    /\ LET res == MatchResult(matched)
       IN  IF res # "ok"
           THEN /\ Finish(res)
                /\ UNCHANGED data
           ELSE LET m == Marshal(matched[1].configData)
                IN  IF m.err
                    THEN /\ Finish("ConversionError")
                         /\ UNCHANGED data
                    ELSE /\ data' = Fill(data, data.organization, m.raw, matched[1])
                         /\ Finish("ok")
    /\ UNCHANGED <<variant, remoteVars, stored, invocations, op, respState,
                   loopVars, calls, before, codecVars>>

\* configData := map[string]interface{}{}; json.Unmarshal(..., &configData)
CreateDocument_Fresh(d) == EmptyDoc

CreateDocument(d) == Unmarshal(d.configData).doc

\* Create: req.Plan.Get and json.Unmarshal
FCreateStart ==
    /\ variant = "framework"
    /\ Begin("FCreate")
    /\ respState' = NullFState
    /\ \E getOk \in BOOLEAN, plan \in Plans :
        IF ~getOk
        THEN /\ data' = NullFState
             /\ Finish("GetError")
        ELSE /\ data' = plan
             /\ IF Unmarshal(plan.configData).err
                THEN Finish("ConversionError")
                ELSE /\ pc' = "updateconfig"
                     /\ UNCHANGED outcome
    /\ UNCHANGED <<variant, remoteVars, stored, codecVars>>
    /\ before' = Snapshot(items, stored, data', respState')

\* Create: UpdateConfig and resp.State.Set
FCreateUpdateConfig ==
    /\ op = "FCreate"
    /\ pc = "updateconfig"
    /\ LET organization == data.organization
           id == ValueString(data.id)
           doc == CreateDocument(data)
       IN  \E ok \in IF RemoteResolves(organization, id) THEN BOOLEAN ELSE {FALSE} :
            /\ calls' = Append(calls, UpdateCall(organization, id, doc, ok))
            /\ IF ok
               THEN /\ items' = RemoteUpdate(id, doc)
                    /\ respState' = data
                    /\ Finish("ok")
               ELSE /\ Finish("RemoteError")
                    /\ UNCHANGED <<items, respState>>
    /\ UNCHANGED <<variant, pages, stored, invocations, op, data, loopVars, before, codecVars>>

----------------------------------------------------------------------------
(* Legacy variant *)

\* Read: d.Get of the identity, then the pagination loop
LReadStart ==
    /\ variant = "legacy"
    /\ stored.id # NoString
    /\ Begin("LRead")
    /\ data' = stored
    /\ pc' = "list"
    /\ UNCHANGED <<variant, remoteVars, stored, respState, outcome, codecVars>>
    /\ before' = Snapshot(items, stored, data', respState')

\* the loop of Read, called by the host or as the tail of Update
LReadList ==
    /\ op \in {"LRead", "LUpdate"}
    /\ ListStep(data.organization, data.provider_key, data.name)
    /\ UNCHANGED <<variant, remoteVars, stored, invocations, op, data, respState,
                   before, codecVars>>

\* d.SetId(buildThreePartID(organization, providerKey, internal_id)); d.Set(...)
SetOnRead_KeepConfig(d, integration) ==
    [d EXCEPT !.id = buildThreePartID(d.organization, d.provider_key, d.internal_id)]

SetOnRead(d, integration) ==
    [d EXCEPT !.id = buildThreePartID(d.organization, d.provider_key, d.internal_id),
              !.config = integration.configData]

\* Read after the loop: the match decision, SetId and the d.Set calls
LReadMatch ==
    /\ op \in {"LRead", "LUpdate"}
    /\ pc = "match"
    /\ LET res == MatchResult(matched)
       IN  /\ Finish(res)
           /\ data' = IF res = "ok" THEN SetOnRead(data, matched[1]) ELSE data
    /\ UNCHANGED <<variant, remoteVars, stored, invocations, op, respState,
                   loopVars, calls, before, codecVars>>

\* Update: d.Get of the identity and of config; the type assertion on config
\* holds or panics, depending on the dynamic type the host library returns
LUpdateStart ==
    /\ variant = "legacy"
    /\ stored.id # NoString
    /\ Begin("LUpdate")
    /\ \E config \in LegacyDocs, asserted \in BOOLEAN :
        /\ data' = [stored EXCEPT !.config = config]
        /\ IF asserted
           THEN /\ pc' = "updateconfig"
                /\ UNCHANGED outcome
           ELSE Finish("Panic")
    /\ UNCHANGED <<variant, remoteVars, stored, respState, codecVars>>
    /\ before' = Snapshot(items, stored, data', respState')

\* Update: UpdateConfig(ctx, organization, d.Id(), &config), then Read
LUpdateUpdateConfig ==
    /\ op = "LUpdate"
    /\ pc = "updateconfig"
    /\ LET organization == data.organization
           id == data.id
           doc == data.config
       IN  \E ok \in IF RemoteResolves(organization, id) THEN BOOLEAN ELSE {FALSE} :
            /\ calls' = Append(calls, UpdateCall(organization, id, doc, ok))
            /\ IF ok
               THEN /\ items' = RemoteUpdate(id, doc)
                    /\ pc' = "list"
                    /\ UNCHANGED outcome
               ELSE /\ Finish("RemoteError")
                    /\ UNCHANGED items
    /\ UNCHANGED <<variant, pages, stored, invocations, op, data, respState,
                   loopVars, before, codecVars>>

\* Delete: d.Get of the identity
LDeleteStart ==
    /\ variant = "legacy"
    /\ stored.id # NoString
    /\ Begin("LDelete")
    /\ data' = stored
    /\ pc' = "updateconfig"
    /\ UNCHANGED <<variant, remoteVars, stored, respState, outcome, codecVars>>
    /\ before' = Snapshot(items, stored, data', respState')

\* &sentry.IntegrationConfigData{}
DeleteDocument_Stored(d) == d.config

DeleteDocument(d) == EmptyDoc

\* d.SetId("")
ClearId_Keep(d) == d

ClearId(d) == [d EXCEPT !.id = NoString]

\* Delete: UpdateConfig with the empty document, then d.SetId("")
LDeleteUpdateConfig ==
    /\ op = "LDelete"
    /\ pc = "updateconfig"
    /\ LET organization == data.organization
           id == data.id
           doc == DeleteDocument(data)
       IN  \E ok \in IF RemoteResolves(organization, id) THEN BOOLEAN ELSE {FALSE} :
            /\ calls' = Append(calls, UpdateCall(organization, id, doc, ok))
            /\ IF ok
               THEN /\ items' = RemoteUpdate(id, doc)
                    /\ data' = ClearId(data)
                    /\ Finish("ok")
               ELSE /\ Finish("RemoteError")
                    /\ UNCHANGED <<items, data>>
    /\ UNCHANGED <<variant, pages, stored, invocations, op, respState, loopVars,
                   before, codecVars>>

----------------------------------------------------------------------------
(* The host takes the handler's result *)

\* framework: the host keeps resp.State of a call without error diagnostics.
\* legacy: the host keeps d after Read without error, and after Update and
\* Delete whatever they returned unless they panicked. The handler's locals
\* end with the call.
Committed ==
    IF variant = "framework"
    THEN IF outcome = "ok" THEN respState ELSE stored
    ELSE IF op = "LRead"
         THEN IF outcome = "ok" THEN data ELSE stored
         ELSE IF outcome = "Panic" THEN stored ELSE data

Return ==
    /\ pc = "done"
    /\ pc' = "idle"
    /\ stored' = Committed
    /\ data' = Committed
    /\ respState' = IF variant = "framework" THEN Committed ELSE NullFState
    /\ op' = "none"
    /\ outcome' = "none"
    /\ cursor' = ""
    /\ matched' = <<>>
    /\ examined' = <<>>
    /\ calls' = <<>>
    /\ before' = Snapshot(items, stored', data', respState')
    /\ UNCHANGED <<variant, remoteVars, invocations, codecVars>>

Next ==
    \/ FReadStart
    \/ FReadList
    \/ FReadMatch
    \/ FCreateStart
    \/ FCreateUpdateConfig
    \/ LReadStart
    \/ LReadList
    \/ LReadMatch
    \/ LUpdateStart
    \/ LUpdateUpdateConfig
    \/ LDeleteStart
    \/ LDeleteUpdateConfig
    \/ Return

Spec == Init /\ [][Next]_vars

\* A handler is one synchronous call chain: once started it runs on, every
\* remote call returning, until it returns to the host.
HandlerStep ==
    \/ FReadList
    \/ FReadMatch
    \/ FCreateUpdateConfig
    \/ LReadList
    \/ LReadMatch
    \/ LUpdateUpdateConfig
    \/ LDeleteUpdateConfig

\* the last invocation of a behaviour, from every remote and stored state
InitLast ==
    /\ variant \in {"framework", "legacy"}
    /\ items \in InitItems
    /\ pages \in Layouts
    /\ stored \in IF variant = "framework" THEN FrameworkStored ELSE LegacyStored
    /\ data = stored
    /\ respState = IF variant = "framework" THEN stored ELSE NullFState
    /\ before = Snapshot(items, stored, data, respState)
    /\ pc = "idle"
    /\ op = "none"
    /\ cursor = ""
    /\ matched = <<>>
    /\ examined = <<>>
    /\ calls = <<>>
    /\ outcome = "none"
    /\ invocations = MaxInvocations - 1
    /\ CodecIdle

SpecLive == InitLast /\ [][Next]_vars /\ WF_vars(HandlerStep)

----------------------------------------------------------------------------
(* The codec on its own: build an identifier from three parts, split it *)

CodecInit ==
    /\ variant = "codec"
    /\ items \in {CHOOSE i \in InitItems : TRUE}
    /\ pages = Layout(<<NItems>>, 0)
    /\ stored = NullFState
    /\ data = NullFState
    /\ respState = NullFState
    /\ before = Snapshot(items, stored, data, respState)
    /\ IdleLocals
    /\ codecIn \in CodecStrings \X CodecStrings \X CodecStrings
    /\ codecId = NoString
    /\ codecOut = [err |-> FALSE, parts |-> <<>>]
    /\ pc = "idle"

Encode ==
    /\ variant = "codec"
    /\ pc = "idle"
    /\ codecId' = buildThreePartID(codecIn[1], codecIn[2], codecIn[3])
    /\ pc' = "encoded"
    /\ UNCHANGED <<before, variant, remoteVars, stored, invocations, op, data, respState,
                   loopVars, calls, outcome, codecIn, codecOut>>

Decode ==
    /\ variant = "codec"
    /\ pc = "encoded"
    /\ codecOut' = splitThreePartID(codecId)
    /\ pc' = "decoded"
    /\ UNCHANGED <<before, variant, remoteVars, stored, invocations, op, data, respState,
                   loopVars, calls, outcome, codecIn, codecId>>

CodecNext == Encode \/ Decode

SpecCodec == CodecInit /\ [][CodecNext]_vars

----------------------------------------------------------------------------
(* Properties *)

ReadOps == {"FRead", "LRead", "LUpdate"}

\* the pagination loop of the running Read has ended through its break
LoopExited ==
    /\ op \in ReadOps
    /\ \/ pc = "match"
       \/ pc = "done" /\ outcome \in {"ok", "NotFound", "NotUnique", "ConversionError"}

\* the cursors of the pages of the listing, from the first page to the first
\* page that carries the empty next-cursor (at most n pages)
RECURSIVE PageChain(_, _)
PageChain(c, n) ==
    IF n = 0 THEN <<>>
    ELSE IF pages[c].next = "" THEN <<c>>
    ELSE <<c>> \o PageChain(pages[c].next, n - 1)

ListingCursors == PageChain("", MaxCalls)

\* the items of the pages with these cursors, for the provider key, in page order
RECURSIVE ItemsOfPages(_)
ItemsOfPages(cs) ==
    IF cs = <<>> THEN <<>>
    ELSE LET pg == pages[Head(cs)]
             all == [i \in 1..Len(pg.ixs) |-> items[pg.ixs[i]]]
         IN  SelectSeq(all, LAMBDA it : it.providerKey = Key) \o ItemsOfPages(Tail(cs))

CursorsSent == [i \in 1..Len(ListCalls) |-> ListCalls[i].cursor]

\* C1: every List call of a Read carries the empty cursor if it is the first
\* and otherwise the next-cursor of the page before it; when the loop ends,
\* List has been called once per page of the listing, in order, and the
\* items the loop visited are the items of all pages, in page order, each once.
C1_PaginationComplete ==
    op \in ReadOps =>
        /\ \A i \in 1..Len(ListCalls) :
              ListCalls[i].cursor =
                  IF i = 1 THEN "" ELSE pages[ListCalls[i - 1].cursor].next
        /\ LoopExited =>
              /\ CursorsSent = ListingCursors
              /\ examined = ItemsOfPages(ListingCursors)

\* a Read whose loop ended after three pages, with items on more than one page
C1_Witness ==
    /\ op \in ReadOps
    /\ pc = "match"
    /\ Len(ListCalls) = 3
    /\ Len(examined) >= 2
    /\ Len(RemoteList(Org, Key, "").integrations) = 1

\* the number of items over all pages of the listing that carry the name
NameCount == Len(SelectSeq(ItemsOfPages(ListingCursors), LAMBDA it : it.name = Name))

\* C2: when the loop of a Read has ended, with n the number of items over all
\* pages whose name is the requested name: n = 0 ends in the not-found error,
\* n > 1 ends in the not-unique error with the state untouched, n = 1 goes on
\* with that one item.
C2_MatcherUniqueness ==
    (LoopExited /\ pc = "done") =>
        /\ NameCount = 0 => outcome = "NotFound"
        /\ NameCount > 1 => outcome = "NotUnique" /\ data = before.data
                            /\ respState = before.respState
        /\ NameCount = 1 => /\ outcome = "ok"
                            /\ Len(matched) = 1
                            /\ matched[1].name = Name

\* two items with the name, on different pages, and Read refused to pick one
C2_Witness ==
    /\ op \in ReadOps
    /\ pc = "done"
    /\ outcome = "NotUnique"
    /\ Len(ListCalls) >= 2
    /\ Len(SelectSeq(RemoteList(Org, Key, "").integrations,
                     LAMBDA it : it.name = Name)) = 1

\* the integrations of a remote that carry the provider key and the name of
\* the identity
IdentityIxs(its) ==
    {ix \in ItemIxs : its[ix].providerKey = Key /\ its[ix].name = Name}

ReadSucceeded == pc = "done" /\ op \in {"FRead", "LRead"} /\ outcome = "ok"

\* C3: whenever Read succeeds, the state handed back to the host holds the
\* organization, provider key and name of the identity and the configuration
\* of the matched remote item, in the framework and in the legacy variant.
C3_ReadOutputState ==
    ReadSucceeded =>
        LET out == IF variant = "framework" THEN respState ELSE data
            config == IF variant = "framework"
                      THEN Unmarshal(respState.configData).doc
                      ELSE data.config
        IN  /\ out.organization = before.stored.organization
            /\ out.provider_key = before.stored.provider_key
            /\ out.name = before.stored.name
            /\ config = matched[1].configData

\* C4: a Delete makes one remote call, an UpdateConfig with the empty
\* document, and no other, whether the call succeeds or fails.
C4_DeleteAsEmptyUpdate ==
    op = "LDelete" =>
        /\ Len(calls) <= 1
        /\ \A i \in 1..Len(calls) :
              calls[i].kind = "UpdateConfig" /\ calls[i].document = EmptyDoc
        /\ pc = "done" => Len(calls) = 1

\* a Delete whose call emptied a remote document that held keys
C4_Witness ==
    /\ op = "LDelete"
    /\ pc = "done"
    /\ outcome = "ok"
    /\ \E ix \in ItemIxs :
          before.items[ix].configData # EmptyDoc /\ items[ix].configData = EmptyDoc

\* shallow key-wise merge: the keys of d carry d's values, the others r's
Merge(r, d) ==
    [k \in DOMAIN r \cup DOMAIN d |-> IF k \in DOMAIN d THEN d[k] ELSE r[k]]

\* C5: a Create with is_fragment = true lists before it updates, and submits
\* the merge of the current remote document and the desired document.
C5_FragmentMerge ==
    (op = "FCreate" /\ before.data.is_fragment = "true" /\ UpdateCalls # <<>>) =>
        /\ calls[1].kind = "List"
        /\ \E ix \in IdentityIxs(before.items) :
              UpdateCalls[1].document =
                  Merge(before.items[ix].configData,
                        Unmarshal(before.data.configData).doc)

\* the keys of the members of a serialized object, and the value the object
\* gives a key (that of its last member with the key)
DesiredKeys(members) == {members[i][1] : i \in 1..Len(members)}
DesiredValue(members, k) ==
    LET last == CHOOSE i \in 1..Len(members) :
                    /\ members[i][1] = k
                    /\ \A j \in (i + 1)..Len(members) : members[j][1] # k
    IN  members[last][2]

\* C6: a Create with is_fragment unset or false submits one document, the
\* desired one: its keys with its values, and no key of the remote document.
C6_FullReplacement ==
    (op = "FCreate" /\ before.data.is_fragment \in {"null", "false"}
                    /\ UpdateCalls # <<>>) =>
        LET doc == UpdateCalls[1].document
            m == before.data.configData.members
        IN  /\ Len(UpdateCalls) = 1
            /\ before.data.configData.kind = "object"
            /\ DOMAIN doc = DesiredKeys(m)
            /\ \A k \in DOMAIN doc : doc[k] = DesiredValue(m, k)

\* a Create without the flag that replaced a remote document holding key a
\* by {b: 3, c: 4}
C6_Witness ==
    /\ op = "FCreate"
    /\ pc = "done"
    /\ outcome = "ok"
    /\ before.data.is_fragment = "false"
    /\ "a" \in DOMAIN before.items[1].configData
    /\ UpdateCalls[1].document = DocBC
    /\ items[1].configData = DocBC

\* C7: Create, Update and Delete report success only when exactly one remote
\* item with the provider key of the identity has its name.
C7_UniquenessOnWrites ==
    (pc = "done" /\ outcome = "ok" /\ op \in {"FCreate", "LUpdate", "LDelete"}) =>
        Cardinality(IdentityIxs(items)) = 1

ListFailed == \E i \in 1..Len(ListCalls) : ~ListCalls[i].ok

\* C8: when a List call of a Read fails, Read ends with the remote error, no
\* match decision is taken and the state is as the handler found it.
C8_PartialFailure ==
    (op \in ReadOps /\ ListFailed) =>
        /\ pc = "done"
        /\ outcome = "RemoteError"
        /\ ~ListCalls[Len(ListCalls)].ok
        /\ data = before.data
        /\ respState = before.respState

\* the second List call failed after the first page gave the only match
C8_Witness ==
    /\ op \in ReadOps
    /\ Len(ListCalls) = 2
    /\ ~ListCalls[2].ok
    /\ Len(matched) = 1
    /\ Cardinality(IdentityIxs(items)) = 1

\* C9: in Update the UpdateConfig call comes before every List call; when it
\* fails Update fails without a List call; when it succeeds the read is run
\* and, on success, the configuration of the state is the one the remote
\* lists for the matched item.
C9_ReadAfterWrite ==
    op = "LUpdate" =>
        /\ \A i \in 1..Len(calls) :
              calls[i].kind = IF i = 1 THEN "UpdateConfig" ELSE "List"
        /\ (calls # <<>> /\ ~calls[1].ok) =>
              Len(calls) = 1 /\ pc = "done" /\ outcome = "RemoteError"
        /\ (pc = "done" /\ outcome = "ok") =>
              /\ Len(calls) >= 2
              /\ calls[1].ok
              /\ \E ix \in IdentityIxs(items) :
                    /\ items[ix].id = matched[1].id
                    /\ data.config = items[ix].configData

\* an Update that succeeded and whose state holds what the remote lists, not
\* the document the caller asked for
C9_Witness ==
    /\ op = "LUpdate"
    /\ pc = "done"
    /\ outcome = "ok"
    /\ data.config # before.data.config

NoSep(s) == \A i \in 1..Len(s) : s[i] # Sep

\* C10: splitting the identifier built from three parts, none of which holds
\* the delimiter, gives back those three parts in order.
C10_CodecRoundTrip ==
    (pc = "decoded" /\ \A i \in 1..3 : NoSep(codecIn[i])) =>
        /\ ~codecOut.err
        /\ codecOut.parts = codecIn

\* three non-empty parts without the delimiter went through the codec
C10_Witness ==
    /\ pc = "decoded"
    /\ \A i \in 1..3 : NoSep(codecIn[i]) /\ codecIn[i] # <<>>
    /\ ~codecOut.err

\* C11: a remote call that returned an error is the last remote call of its
\* invocation, and the invocation has ended with the remote error.
C11_NoRetries ==
    \A i \in 1..Len(calls) :
        ~calls[i].ok =>
            /\ i = Len(calls)
            /\ pc = "done"
            /\ outcome = "RemoteError"

\* an Update whose second List call failed, and no call followed it
C11_Witness ==
    /\ pc = "done"
    /\ Len(calls) = 3
    /\ calls[1].kind = "UpdateConfig"
    /\ calls[2].ok
    /\ ~calls[3].ok
    /\ calls[3].cursor # ""

\* C12: an invocation that ends with an error leaves nothing behind: the
\* remote documents and the state the handler was given are as before it.
C12_AllOrNothing ==
    (pc = "done" /\ outcome # "ok") =>
        /\ items = before.items
        /\ data = before.data
        /\ respState = before.respState

\* the listing, followed from its first page, comes to a page that carries
\* the empty next-cursor
ListingTerminates ==
    LET ch == PageChain("", Len(CursorSeq))
    IN  pages[ch[Len(ch)]].next = ""

\* the last List call of the running Read returned the empty next-cursor
LastPageSeen ==
    /\ op \in ReadOps
    /\ ListCalls # <<>>
    /\ ListCalls[Len(ListCalls)].ok
    /\ pages[ListCalls[Len(ListCalls)].cursor].next = ""

\* C13: when the listing comes to an empty next-cursor and every List call
\* returns, a Read in its loop eventually ends; and once a response carried
\* the empty next-cursor the Read issues no further List call.
C13_PaginationTerminates ==
    /\ (op \in ReadOps /\ pc = "list" /\ ListingTerminates) ~> (pc = "done")
    /\ [][LastPageSeen => Len(ListCalls') <= Len(ListCalls)]_vars

\* a Read that ended after following the listing over three pages
C13_Witness ==
    /\ op \in ReadOps
    /\ pc = "done"
    /\ outcome \in {"ok", "NotFound", "NotUnique"}
    /\ Len(ListCalls) = 3
    /\ ListingTerminates

\* C14: after a successful legacy Read the identifier is the composite of the
\* organization, the provider key and the id of the matched remote item.
C14_IdentifierFromMatch ==
    (pc = "done" /\ op = "LRead" /\ outcome = "ok") =>
        data.id = buildThreePartID(before.data.organization,
                                   before.data.provider_key, matched[1].id)

\* C15: the integrationID of every UpdateConfig call is the remote id of an
\* integration that matches the identity.
C15_WriteTarget ==
    \A i \in 1..Len(UpdateCalls) :
        \E ix \in IdentityIxs(before.items) :
            UpdateCalls[i].integrationID = before.items[ix].id

\* C16: a Read called by the host issues List calls only and leaves every
\* remote document as it was, whatever its outcome.
C16_ReadIsReadOnly ==
    op \in {"FRead", "LRead"} =>
        /\ UpdateCalls = <<>>
        /\ items = before.items

\* a Read that ended without error after at least one List call
C16_Witness ==
    /\ op \in {"FRead", "LRead"}
    /\ pc = "done"
    /\ outcome = "ok"
    /\ ListCalls # <<>>

\* C17: a Create whose serialized document is not an object ends with the
\* conversion error, without an UpdateConfig call, the remote and the output
\* state untouched.
C17_ConversionErrorOnCreate ==
    (op = "FCreate" /\ before.data # NullFState
                    /\ before.data.configData.kind # "object") =>
        /\ pc = "done"
        /\ outcome = "ConversionError"
        /\ calls = <<>>
        /\ items = before.items
        /\ respState = NullFState

\* a Create given a document that is not JSON
C17_Witness ==
    /\ op = "FCreate"
    /\ pc = "done"
    /\ before.data.configData = RawInvalid
    /\ before.data.id = TKnown(ItemId(1))
    /\ outcome = "ConversionError"

\* C18: no cursor is sent twice in one traversal: a response that repeats a
\* cursor ends the pagination instead of a further List call with it.
C18_RepeatedCursorGuard ==
    \A i, j \in 1..Len(ListCalls) :
        i # j => ListCalls[i].cursor # ListCalls[j].cursor

\* C19: Delete clears the identifier exactly when its UpdateConfig call
\* succeeded; when the call fails Delete returns the error and the
\* identifier and every stored field are as before.
C19_DeleteIdentifier ==
    op = "LDelete" =>
        /\ (data.id = NoString) <=> (calls # <<>> /\ calls[1].ok)
        /\ (calls # <<>> /\ calls[1].ok) => pc = "done" /\ outcome = "ok"
        /\ (calls # <<>> /\ ~calls[1].ok) =>
              /\ pc = "done"
              /\ outcome = "RemoteError"
              /\ data = before.data
              /\ Committed = before.stored

\* a Delete whose call failed although the remote has the integration
C19_Witness ==
    /\ op = "LDelete"
    /\ pc = "done"
    /\ ~calls[1].ok
    /\ RemoteResolves(data.organization, data.id)
    /\ data.id # NoString

====
